---- MODULE Spec2Model ----
(***************************************************************************)
(* Appointment server: the user routes, the authentication middleware and  *)
(* the appointment routes, as a state machine over the two stores.         *)
(*                                                                         *)
(* Time is counted in hours (the token lifetime is '1h').  ObjectIds are   *)
(* numbers handed out in order and never reused; BadId stands for a string *)
(* that is no ObjectId (Mongoose raises a CastError on it).  A handler is  *)
(* one step, from the guard to the response; the register route, which     *)
(* looks a user up and saves one after another await, is also given as two *)
(* steps (SpecUsers).  The name and gender of a user are stored and never  *)
(* read, and are left out.  models/User is not among the sources: what the *)
(* store does with two users of one email is taken from the data model's   *)
(* description (DuplicateEmail).                                           *)
(***************************************************************************)
EXTENDS Integers, FiniteSets, Bags

\* ------------------------------------------------------------------ bounds
MaxUsers == 2
MaxAppts == 2
MaxTime == 1
MaxTokens == 2
MaxPending == 2

\* ------------------------------------------------------------------ constants
ExpiresIn == 1
BadId == 0
JWT_SECRET == "secret"
Undefined == "undefined"

Roles == {"patient", "doctor", "admin"}
Emails == {"a@x", "b@x"}
Passwords == {"pw"}
StatusEnum == {"pending", "confirmed", "canceled", "completed"}
\* what the clients send as status: an enumerated value and one that is not
BodyStatuses == {"pending", "confirmed", "bogus"}
Dates == {"2024-05-01"}
Times == {"10:00"}
Reasons == {"checkup"}

UserIds == 1..MaxUsers
ApptIds == 1..MaxAppts

VARIABLES users, nextUid, appts, nextAid, issued, now, pending, resp

vars == <<users, nextUid, appts, nextAid, issued, now, pending, resp>>

\* ------------------------------------------------------------------ helpers
\* the response of the last request: the route, the status code, and the user id
\* the guard decoded from the token (BadId when it decoded none)
Reply(op, code, who) == [op |-> op, code |-> code, who |-> who]

IsObjectId(id) == id # BadId

\* bcrypt.hash / bcrypt.compare
Hash(pw) == [alg |-> "bcrypt", pw |-> pw]
Compare(pw, stored) == stored = Hash(pw)

\* User.findOne({ email }): the first stored user with that email, BadId if none
Min(S) == CHOOSE x \in S : \A y \in S : x <= y
WithEmail(email) == {u \in DOMAIN users : users[u].email = email}
FindOneByEmail(email) == IF WithEmail(email) = {} THEN BadId ELSE Min(WithEmail(email))

\* ------------------------------------------------------------------ tokens
\* of the payload {id, name, role} the server reads the id alone
Jwt(id, iat, sig) == [kind |-> "jwt", id |-> id, iat |-> iat, sig |-> sig]
Garbage == [kind |-> "garbage", id |-> BadId, iat |-> 0, sig |-> ""]

\* jwt.sign({id, name, role}, JWT_SECRET, {expiresIn: '1h'})
JwtSign(id) == Jwt(id, now, JWT_SECRET)

\* jwt.verify: throws on a malformed token, a wrong signature, an expired token
JwtVerify(j) == /\ j.kind = "jwt"
                /\ j.sig = JWT_SECRET
                /\ now < j.iat + ExpiresIn

NoHeader == [present |-> FALSE, bearer |-> FALSE, jwt |-> Garbage]
Header(bearer, j) == [present |-> TRUE, bearer |-> bearer, jwt |-> j]

\* token.replace('Bearer ', '')
StripBearer(h) == h.jwt

\* what a client can put in the token header: nothing, junk, a token signed
\* with another secret, or a token the server issued
Forged == {Jwt(u, now, "other") : u \in DOMAIN users}
Headers == {NoHeader} \cup {Header(FALSE, Garbage)}
             \cup {Header(TRUE, j) : j \in Forged}
             \cup {Header(FALSE, j) : j \in issued}

\* authenticateUser: code = 0 stands for next(), user for req.user
authenticateUser_skipUserCheck(h) ==
    IF ~h.present THEN [code |-> 401, user |-> BadId]
    ELSE IF ~JwtVerify(StripBearer(h)) THEN [code |-> 400, user |-> BadId]
    ELSE IF StripBearer(h).id \notin DOMAIN users
      THEN [code |-> 500, user |-> StripBearer(h).id]
    ELSE [code |-> 0, user |-> StripBearer(h).id]

authenticateUser(h) ==
    IF ~h.present THEN [code |-> 401, user |-> BadId]
    ELSE IF ~JwtVerify(StripBearer(h)) THEN [code |-> 400, user |-> BadId]
    ELSE IF StripBearer(h).id \notin DOMAIN users
      THEN [code |-> 401, user |-> StripBearer(h).id]
    ELSE [code |-> 0, user |-> StripBearer(h).id]

\* ------------------------------------------------------------------ state
Init == /\ users = <<>>
        /\ nextUid = 1
        /\ appts = <<>>
        /\ nextAid = 1
        /\ issued = {}
        /\ now = 0
        /\ pending = EmptyBag
        /\ resp = Reply("none", 0, BadId)

\* ------------------------------------------------------------------ user routes
\* the unique index on email, at creation
DuplicateEmail(email) == WithEmail(email) # {}

\* POST /user/register, up to the await of User.findOne: the request either
\* is answered 400 or goes on to hash and save
RegisterFind(email, role, pw) ==
    /\ IF FindOneByEmail(email) # BadId
         THEN /\ resp' = Reply("Register", 400, BadId)
              /\ UNCHANGED pending
         ELSE /\ BagCardinality(pending) < MaxPending
              /\ pending' = pending (+) SetToBag({[email |-> email, role |-> role, pw |-> pw]})
              /\ resp' = resp
    /\ UNCHANGED <<users, nextUid, appts, nextAid, issued, now>>

\* new User({..., password: encPassword, ...}).save() and the response
SaveUser(r) ==
    IF DuplicateEmail(r.email)
      THEN /\ resp' = Reply("Register", 500, BadId)
           /\ UNCHANGED <<users, nextUid>>
      ELSE /\ nextUid <= MaxUsers
           /\ users' = [u \in DOMAIN users \cup {nextUid} |->
                          IF u = nextUid
                            THEN [email |-> r.email, role |-> r.role, password |-> Hash(r.pw)]
                            ELSE users[u]]
           /\ nextUid' = nextUid + 1
           /\ resp' = Reply("Register", 201, BadId)

\* POST /user/register, from bcrypt.hash and newUser.save() to the response
RegisterSave(r) ==
    /\ BagIn(r, pending)
    /\ pending' = pending (-) SetToBag({r})
    /\ SaveUser(r)
    /\ UNCHANGED <<appts, nextAid, issued, now>>

\* POST /user/register with no other request between its two awaits
Register(email, role, pw) ==
    /\ IF FindOneByEmail(email) # BadId
         THEN /\ resp' = Reply("Register", 400, BadId)
              /\ UNCHANGED <<users, nextUid>>
         ELSE SaveUser([email |-> email, role |-> role, pw |-> pw])
    /\ UNCHANGED <<appts, nextAid, issued, now, pending>>

\* POST /user/login
Login(email, pw) ==
    /\ LET u == FindOneByEmail(email) IN
         IF u = BadId
           THEN /\ resp' = Reply("Login", 401, BadId)
                /\ UNCHANGED issued
         ELSE IF ~Compare(pw, users[u].password)
           THEN /\ resp' = Reply("Login", 401, BadId)
                /\ UNCHANGED issued
         ELSE /\ Cardinality(issued \cup {JwtSign(u)}) <= MaxTokens
              /\ issued' = issued \cup {JwtSign(u)}
              /\ resp' = Reply("Login", 200, BadId)
    /\ UNCHANGED <<users, nextUid, appts, nextAid, now, pending>>

\* GET /user/, GET /user/find/doctors
GetUsers ==
    /\ resp' = Reply("GetUsers", 200, BadId)
    /\ UNCHANGED <<users, nextUid, appts, nextAid, issued, now, pending>>

\* GET /user/:id
GetUser(id) ==
    /\ resp' = Reply("GetUser", IF ~IsObjectId(id) THEN 500
                                ELSE IF id \notin DOMAIN users THEN 404 ELSE 200, BadId)
    /\ UNCHANGED <<users, nextUid, appts, nextAid, issued, now, pending>>

\* PUT /user/:id : the body's email, password and role are stored as they come
UpdateUser(id, email, role, pw) ==
    /\ IF ~IsObjectId(id)
         THEN /\ resp' = Reply("UpdateUser", 500, BadId)
              /\ UNCHANGED users
         ELSE IF id \notin DOMAIN users
           THEN /\ resp' = Reply("UpdateUser", 404, BadId)
                /\ UNCHANGED users
         ELSE /\ users' = [users EXCEPT ![id] = [email |-> email, role |-> role, password |-> pw]]
              /\ resp' = Reply("UpdateUser", 200, BadId)
    /\ UNCHANGED <<nextUid, appts, nextAid, issued, now, pending>>

\* DELETE /user/:id
DeleteUser(id) ==
    /\ IF ~IsObjectId(id)
         THEN /\ resp' = Reply("DeleteUser", 500, BadId)
              /\ UNCHANGED users
         ELSE IF id \notin DOMAIN users
           THEN /\ resp' = Reply("DeleteUser", 404, BadId)
                /\ UNCHANGED users
         ELSE /\ users' = [u \in DOMAIN users \ {id} |-> users[u]]
              /\ resp' = Reply("DeleteUser", 200, BadId)
    /\ UNCHANGED <<nextUid, appts, nextAid, issued, now, pending>>

\* ------------------------------------------------------------------ appointment routes
\* Appointment schema, checked by save(): the required fields and the status enum
Validates_noEnum(a) ==
    /\ IsObjectId(a.patient) /\ IsObjectId(a.doctor)
    /\ a.date # Undefined /\ a.time # Undefined /\ a.reason # Undefined

Validates(a) ==
    /\ IsObjectId(a.patient) /\ IsObjectId(a.doctor)
    /\ a.date # Undefined /\ a.time # Undefined /\ a.reason # Undefined
    /\ a.status \in StatusEnum

\* new Appointment({...}).save() and the 201, or the 500 of a failed validation
SaveAppointment(a, actor) ==
    IF ~Validates(a)
      THEN /\ resp' = Reply("Book", 500, actor)
           /\ UNCHANGED <<appts, nextAid>>
      ELSE /\ nextAid <= MaxAppts
           /\ appts' = [i \in DOMAIN appts \cup {nextAid} |->
                          IF i = nextAid THEN a ELSE appts[i]]
           /\ nextAid' = nextAid + 1
           /\ resp' = Reply("Book", 201, actor)

\* POST /appointment/ past the guard; of the body the handler reads doctorId,
\* date, time and reason and nothing else
BookHandler_anyUser(actor, body) ==
    IF users[actor].role # "patient"
      THEN /\ resp' = Reply("Book", 403, actor)
           /\ UNCHANGED <<appts, nextAid>>
    ELSE IF ~IsObjectId(body.doctorId)
      THEN /\ resp' = Reply("Book", 500, actor)
           /\ UNCHANGED <<appts, nextAid>>
    ELSE IF body.doctorId \notin DOMAIN users
      THEN /\ resp' = Reply("Book", 404, actor)
           /\ UNCHANGED <<appts, nextAid>>
    ELSE SaveAppointment([patient |-> actor, doctor |-> body.doctorId, date |-> body.date,
                          time |-> body.time, reason |-> body.reason, status |-> "pending",
                          createdAt |-> now], actor)

BookHandler_bodyFields(actor, body) ==
    IF users[actor].role # "patient"
      THEN /\ resp' = Reply("Book", 403, actor)
           /\ UNCHANGED <<appts, nextAid>>
    ELSE IF ~IsObjectId(body.doctorId)
      THEN /\ resp' = Reply("Book", 500, actor)
           /\ UNCHANGED <<appts, nextAid>>
    ELSE IF body.doctorId \notin DOMAIN users \/ users[body.doctorId].role # "doctor"
      THEN /\ resp' = Reply("Book", 404, actor)
           /\ UNCHANGED <<appts, nextAid>>
    ELSE SaveAppointment([patient |-> body.patient, doctor |-> body.doctorId, date |-> body.date,
                          time |-> body.time, reason |-> body.reason, status |-> body.status,
                          createdAt |-> now], actor)

BookHandler(actor, body) ==
    IF users[actor].role # "patient"
      THEN /\ resp' = Reply("Book", 403, actor)
           /\ UNCHANGED <<appts, nextAid>>
    ELSE IF ~IsObjectId(body.doctorId)
      THEN /\ resp' = Reply("Book", 500, actor)
           /\ UNCHANGED <<appts, nextAid>>
    ELSE IF body.doctorId \notin DOMAIN users \/ users[body.doctorId].role # "doctor"
      THEN /\ resp' = Reply("Book", 404, actor)
           /\ UNCHANGED <<appts, nextAid>>
    ELSE SaveAppointment([patient |-> actor, doctor |-> body.doctorId, date |-> body.date,
                          time |-> body.time, reason |-> body.reason, status |-> "pending",
                          createdAt |-> now], actor)

\* POST /appointment/
Book(h, body) ==
    /\ LET auth == authenticateUser(h) IN
         IF auth.code # 0
           THEN /\ resp' = Reply("Book", auth.code, auth.user)
                /\ UNCHANGED <<appts, nextAid>>
           ELSE BookHandler(auth.user, body)
    /\ UNCHANGED <<users, nextUid, issued, now, pending>>

\* GET /appointment/ (admin), /appointment/doctor, /appointment/patient, past the guard
ListHandler(actor, role) ==
    resp' = Reply("List", IF users[actor].role # role THEN 403 ELSE 200, actor)

List(h, role) ==
    /\ LET auth == authenticateUser(h) IN
         IF auth.code # 0
           THEN resp' = Reply("List", auth.code, auth.user)
           ELSE ListHandler(auth.user, role)
    /\ UNCHANGED <<users, nextUid, appts, nextAid, issued, now, pending>>

\* PUT /appointment/:id past the guard
UpdateStatusHandler_noOwnerCheck(actor, id, status) ==
    IF users[actor].role # "doctor" /\ users[actor].role # "admin"
      THEN /\ resp' = Reply("UpdateStatus", 403, actor)
           /\ UNCHANGED appts
    ELSE IF ~IsObjectId(id)
      THEN /\ resp' = Reply("UpdateStatus", 500, actor)
           /\ UNCHANGED appts
    ELSE IF id \notin DOMAIN appts
      THEN /\ resp' = Reply("UpdateStatus", 404, actor)
           /\ UNCHANGED appts
    ELSE IF ~Validates([appts[id] EXCEPT !.status = status])
      THEN /\ resp' = Reply("UpdateStatus", 500, actor)
           /\ UNCHANGED appts
    ELSE /\ appts' = [appts EXCEPT ![id].status = status]
         /\ resp' = Reply("UpdateStatus", 200, actor)

UpdateStatusHandler_newDocument(actor, id, status) ==
    IF users[actor].role # "doctor" /\ users[actor].role # "admin"
      THEN /\ resp' = Reply("UpdateStatus", 403, actor)
           /\ UNCHANGED appts
    ELSE IF ~IsObjectId(id)
      THEN /\ resp' = Reply("UpdateStatus", 500, actor)
           /\ UNCHANGED appts
    ELSE IF id \notin DOMAIN appts
      THEN /\ resp' = Reply("UpdateStatus", 404, actor)
           /\ UNCHANGED appts
    ELSE IF users[actor].role = "doctor" /\ appts[id].doctor # actor
      THEN /\ resp' = Reply("UpdateStatus", 403, actor)
           /\ UNCHANGED appts
    ELSE IF ~Validates([appts[id] EXCEPT !.status = status])
      THEN /\ resp' = Reply("UpdateStatus", 500, actor)
           /\ UNCHANGED appts
    ELSE /\ appts' = [appts EXCEPT ![id].status = status, ![id].createdAt = now]
         /\ resp' = Reply("UpdateStatus", 200, actor)

UpdateStatusHandler(actor, id, status) ==
    IF users[actor].role # "doctor" /\ users[actor].role # "admin"
      THEN /\ resp' = Reply("UpdateStatus", 403, actor)
           /\ UNCHANGED appts
    ELSE IF ~IsObjectId(id)
      THEN /\ resp' = Reply("UpdateStatus", 500, actor)
           /\ UNCHANGED appts
    ELSE IF id \notin DOMAIN appts
      THEN /\ resp' = Reply("UpdateStatus", 404, actor)
           /\ UNCHANGED appts
    ELSE IF users[actor].role = "doctor" /\ appts[id].doctor # actor
      THEN /\ resp' = Reply("UpdateStatus", 403, actor)
           /\ UNCHANGED appts
    ELSE IF ~Validates([appts[id] EXCEPT !.status = status])
      THEN /\ resp' = Reply("UpdateStatus", 500, actor)
           /\ UNCHANGED appts
    ELSE /\ appts' = [appts EXCEPT ![id].status = status]
         /\ resp' = Reply("UpdateStatus", 200, actor)

\* PUT /appointment/:id
UpdateStatus(h, id, status) ==
    /\ LET auth == authenticateUser(h) IN
         IF auth.code # 0
           THEN /\ resp' = Reply("UpdateStatus", auth.code, auth.user)
                /\ UNCHANGED appts
           ELSE UpdateStatusHandler(auth.user, id, status)
    /\ UNCHANGED <<users, nextUid, nextAid, issued, now, pending>>

\* DELETE /appointment/:id past the guard
CancelHandler_noOwnerCheck(actor, id) ==
    IF ~IsObjectId(id)
      THEN /\ resp' = Reply("Cancel", 500, actor)
           /\ UNCHANGED appts
    ELSE IF id \notin DOMAIN appts
      THEN /\ resp' = Reply("Cancel", 404, actor)
           /\ UNCHANGED appts
    ELSE IF users[actor].role # "patient" /\ users[actor].role # "admin"
      THEN /\ resp' = Reply("Cancel", 403, actor)
           /\ UNCHANGED appts
    ELSE /\ appts' = [i \in DOMAIN appts \ {id} |-> appts[i]]
         /\ resp' = Reply("Cancel", 200, actor)

CancelHandler(actor, id) ==
    IF ~IsObjectId(id)
      THEN /\ resp' = Reply("Cancel", 500, actor)
           /\ UNCHANGED appts
    ELSE IF id \notin DOMAIN appts
      THEN /\ resp' = Reply("Cancel", 404, actor)
           /\ UNCHANGED appts
    ELSE IF users[actor].role = "patient" /\ appts[id].patient # actor
      THEN /\ resp' = Reply("Cancel", 403, actor)
           /\ UNCHANGED appts
    ELSE IF users[actor].role # "patient" /\ users[actor].role # "admin"
      THEN /\ resp' = Reply("Cancel", 403, actor)
           /\ UNCHANGED appts
    ELSE /\ appts' = [i \in DOMAIN appts \ {id} |-> appts[i]]
         /\ resp' = Reply("Cancel", 200, actor)

\* DELETE /appointment/:id
Cancel(h, id) ==
    /\ LET auth == authenticateUser(h) IN
         IF auth.code # 0
           THEN /\ resp' = Reply("Cancel", auth.code, auth.user)
                /\ UNCHANGED appts
           ELSE CancelHandler(auth.user, id)
    /\ UNCHANGED <<users, nextUid, nextAid, issued, now, pending>>

\* one hour passes
Tick ==
    /\ now < MaxTime
    /\ now' = now + 1
    /\ UNCHANGED <<users, nextUid, appts, nextAid, issued, pending, resp>>

\* ------------------------------------------------------------------ specifications
\* the request bodies of POST /appointment/: a doctorId, a date or none, and a
\* status and a patient field that the route does not ask for
BookBodies ==
    {[doctorId |-> d, date |-> dt, time |-> t, reason |-> rs, status |-> "confirmed",
      patient |-> d] :
        d \in UserIds \cup {BadId}, dt \in Dates \cup {Undefined}, t \in Times,
        rs \in Reasons}

OneOf(S) == CHOOSE x \in S : TRUE

\* the routes compare addresses and nothing more: the people who register
\* take the free addresses in order, or try one that is taken
Taken == {users[u].email : u \in DOMAIN users}
RegisterEmails == Taken \cup (IF Emails \subseteq Taken THEN {} ELSE {OneOf(Emails \ Taken)})

\* the email a client sends that updates a user and keeps the user's email
EmailOf(id) == IF id \in DOMAIN users THEN users[id].email ELSE OneOf(Emails)

UserRequest ==
    \/ \E e \in Emails, p \in Passwords \cup {"wrong"} : Login(e, p)
    \/ \E id \in UserIds \cup {BadId} : DeleteUser(id)

\* the guard reads the header alone: a request it turns away is enumerated with
\* one body, one id and one status (the others give the same step)
BodiesWith(h) == IF authenticateUser(h).code = 0 THEN BookBodies ELSE {OneOf(BookBodies)}
RolesWith(h) == IF authenticateUser(h).code = 0 THEN Roles ELSE {OneOf(Roles)}
IdsWith(h) == IF authenticateUser(h).code = 0 THEN ApptIds \cup {BadId} ELSE {BadId}
StatusesWith(h) == IF authenticateUser(h).code = 0 THEN BodyStatuses ELSE {OneOf(BodyStatuses)}

AppointmentRequest ==
    \/ \E h \in Headers : \E b \in BodiesWith(h) : Book(h, b)
    \/ \E h \in Headers : \E r \in RolesWith(h) : List(h, r)
    \/ \E h \in Headers : \E id \in IdsWith(h), s \in StatusesWith(h) : UpdateStatus(h, id, s)
    \/ \E h \in Headers : \E id \in IdsWith(h) : Cancel(h, id)

\* every route that reads or writes what the appointment routes depend on: the
\* users (their existence and roles), the tokens, the appointments, the clock. A
\* register request is served without another request between its awaits, and
\* an update of a user resends the user's email: the appointment routes and the
\* guard never read an email, and SpecUsers has the other cases
Next ==
    \/ \E e \in RegisterEmails, r \in Roles, p \in Passwords : Register(e, r, p)
    \/ \E id \in UserIds \cup {BadId}, r \in Roles, p \in Passwords :
          UpdateUser(id, EmailOf(id), r, Hash(p))
    \/ UserRequest
    \/ AppointmentRequest
    \/ Tick

Spec == Init /\ [][Next]_vars

\* the user routes alone, the two awaits of a register request interleaved with
\* the other requests
NextUsers ==
    \/ \E e \in Emails, r \in Roles, p \in Passwords : RegisterFind(e, r, p)
    \/ \E r \in BagToSet(pending) : RegisterSave(r)
    \/ \E id \in UserIds \cup {BadId}, e \in Emails, r \in Roles, p \in Passwords :
          UpdateUser(id, e, r, Hash(p))
    \/ UserRequest
    \/ GetUsers
    \/ \E id \in UserIds \cup {BadId} : GetUser(id)

SpecUsers == Init /\ [][NextUsers]_vars

\* ------------------------------------------------------------------ properties
\* the guard lets the request of header h through, and the user it hands over
AuthOK(h) == authenticateUser(h).code = 0
Actor(h) == authenticateUser(h).user
RoleOf(h) == users[Actor(h)].role

\* a request with header h on one of the routes behind authenticateUser
AppointmentRoute(h) ==
    \/ \E b \in BookBodies : Book(h, b)
    \/ \E r \in Roles : List(h, r)
    \/ \E id \in ApptIds \cup {BadId}, s \in BodyStatuses : UpdateStatus(h, id, s)
    \/ \E id \in ApptIds \cup {BadId} : Cancel(h, id)

\* the response under way can be the answer to a request with header h
Answers(h) == /\ authenticateUser(h).user = resp'.who
              /\ authenticateUser(h).code \in {0, resp'.code}

Denied(code) == resp'.code = code /\ appts' = appts /\ nextAid' = nextAid

\* C1 as stated: PUT /appointment/:id by a doctor D on an existing appointment A
\* answers 200 and sets A.status to the requested status if and only if
\* A.doctor = D.id, and is denied with 403, A unchanged, otherwise.
C1_AsStated ==
    [][resp'.op = "UpdateStatus" =>
        \A h \in Headers :
          (Answers(h) /\ AuthOK(h) /\ RoleOf(h) = "doctor") =>
            \A id \in DOMAIN appts, s \in BodyStatuses :
              UpdateStatus(h, id, s) =>
                IF appts[id].doctor = Actor(h)
                  THEN /\ resp'.code = 200
                       /\ appts' = [appts EXCEPT ![id].status = s]
                  ELSE Denied(403)]_vars

\* C1, amended: PUT /appointment/:id by a doctor D on an existing appointment A
\* is denied with 403, A unchanged, whenever A.doctor # D.id; when A.doctor = D.id
\* it answers 200 and sets A.status if the requested status is one of the four
\* enumerated values, and answers 500, A unchanged, if it is not.
C1_DoctorUpdatesOwnOnly ==
    [][resp'.op = "UpdateStatus" =>
        \A h \in Headers :
          (Answers(h) /\ AuthOK(h) /\ RoleOf(h) = "doctor") =>
            \A id \in DOMAIN appts, s \in BodyStatuses :
              UpdateStatus(h, id, s) =>
                IF appts[id].doctor # Actor(h) THEN Denied(403)
                ELSE IF s \in StatusEnum
                  THEN /\ resp'.code = 200
                       /\ appts' = [appts EXCEPT ![id].status = s]
                  ELSE Denied(500)]_vars

\* a doctor has just been refused (403) the update of an appointment of another doctor
C1_Witness ==
    /\ resp.op = "UpdateStatus" /\ resp.code = 403
    /\ resp.who \in DOMAIN users /\ users[resp.who].role = "doctor"
    /\ \E a \in DOMAIN appts : appts[a].doctor # resp.who
    /\ \E a \in DOMAIN appts : appts[a].status = "confirmed"

\* C2: DELETE /appointment/:id on an existing appointment A answers 200 and
\* removes A when the actor is an admin or the patient of A, and answers 403 and
\* leaves the store unchanged when the actor is another patient or a doctor.
C2_CancelByOwnerOrAdmin ==
    [][resp'.op = "Cancel" =>
        \A h \in Headers :
          (Answers(h) /\ AuthOK(h)) =>
            \A id \in DOMAIN appts :
              Cancel(h, id) =>
                IF \/ RoleOf(h) = "admin"
                   \/ RoleOf(h) = "patient" /\ appts[id].patient = Actor(h)
                  THEN /\ resp'.code = 200
                       /\ DOMAIN appts' = DOMAIN appts \ {id}
                       /\ \A i \in DOMAIN appts' : appts'[i] = appts[i]
                  ELSE Denied(403)]_vars

\* a patient has just been refused (403) the cancellation of another patient's appointment
C2_Witness ==
    /\ resp.op = "Cancel" /\ resp.code = 403
    /\ resp.who \in DOMAIN users /\ users[resp.who].role = "patient"
    /\ \E a \in DOMAIN appts : appts[a].patient # resp.who

\* C3: POST /appointment/ by an authenticated actor who is no patient answers 403
\* whatever the body; by a patient naming a doctorId that resolves to no user or
\* to a user who is no doctor it answers 404; both leave the appointment store
\* unchanged, and a step of the route that creates a record has a patient as
\* actor and an existing doctor as doctorId.
C3_BookOnlyPatientWithDoctor ==
    [][resp'.op = "Book" =>
        \A h \in Headers : Answers(h) => \A b \in BookBodies :
          Book(h, b) =>
            /\ (AuthOK(h) /\ RoleOf(h) # "patient") => Denied(403)
            /\ (/\ AuthOK(h) /\ RoleOf(h) = "patient" /\ IsObjectId(b.doctorId)
                /\ (b.doctorId \notin DOMAIN users \/ users[b.doctorId].role # "doctor"))
                 => Denied(404)
            /\ appts' # appts =>
                 /\ AuthOK(h) /\ RoleOf(h) = "patient"
                 /\ b.doctorId \in DOMAIN users /\ users[b.doctorId].role = "doctor"]_vars

\* a patient has just been answered 404 while a user who is no doctor exists
C3_Witness ==
    /\ resp.op = "Book" /\ resp.code = 404
    /\ resp.who \in DOMAIN users /\ users[resp.who].role = "patient"
    /\ \E u \in DOMAIN users : users[u].role # "doctor"

\* C4: the appointment a POST /appointment/ answering 201 creates has
\* status = pending and patient = the authenticated actor, whatever the status
\* and patient fields of the body.
C4_BookedIsPendingForActor ==
    [][(resp'.op = "Book" /\ resp'.code = 201) =>
        \A h \in Headers : Answers(h) => \A b \in BookBodies :
          Book(h, b) =>
            /\ DOMAIN appts' = DOMAIN appts \cup {nextAid}
            /\ appts'[nextAid].status = "pending"
            /\ appts'[nextAid].patient = Actor(h)
            /\ appts'[nextAid].doctor = b.doctorId]_vars

\* an appointment has just been booked with a body that carried another status
\* and another patient
C4_Witness ==
    /\ resp.op = "Book" /\ resp.code = 201
    /\ \E a \in DOMAIN appts : appts[a].patient = resp.who /\ appts[a].status = "pending"
    /\ \A b \in BookBodies : b.status # "pending"
    /\ \E b \in BookBodies : b.patient # resp.who

\* C5 as stated: on every route behind the guard a request whose credential is
\* missing, malformed, wrongly signed or expired is answered 401, and neither
\* store changes.
C5_AsStated ==
    [][resp'.op \in {"Book", "List", "UpdateStatus", "Cancel"} =>
       \A h \in Headers :
         (~h.present \/ ~JwtVerify(StripBearer(h))) =>
           (AppointmentRoute(h) =>
              /\ resp'.code = 401
              /\ UNCHANGED <<users, appts, nextAid>>)]_vars

\* C6: a request on a route behind the guard that presents an unexpired token
\* the server issued to a user whose record is gone is answered 401 and changes
\* no appointment.
C6_DeletedUserIsRejected ==
    [][resp'.op \in {"Book", "List", "UpdateStatus", "Cancel"} =>
       \A h \in Headers :
         (/\ h.present /\ JwtVerify(StripBearer(h))
          /\ StripBearer(h).id \notin DOMAIN users) =>
           (AppointmentRoute(h) =>
              /\ resp'.code = 401
              /\ UNCHANGED <<users, appts, nextAid>>)]_vars

\* the last request was answered 401 for a token that decoded to a deleted user
C6_Witness ==
    /\ resp.code = 401
    /\ resp.who # BadId /\ resp.who < nextUid /\ resp.who \notin DOMAIN users
    /\ \E j \in issued : j.id = resp.who /\ JwtVerify(j)

\* C7 as stated: PUT /appointment/:id by an admin or by the appointment's doctor
\* answers 200 and stores the requested status, whatever its value.
C7_AsStated ==
    [][resp'.op = "UpdateStatus" =>
        \A h \in Headers :
          (Answers(h) /\ AuthOK(h)) =>
            \A id \in DOMAIN appts, s \in BodyStatuses :
              (/\ UpdateStatus(h, id, s)
               /\ \/ RoleOf(h) = "admin"
                  \/ RoleOf(h) = "doctor" /\ appts[id].doctor = Actor(h)) =>
                /\ resp'.code = 200
                /\ appts'[id].status = s]_vars

\* C7, amended: PUT /appointment/:id by an admin or by the appointment's doctor
\* answers 200 and stores the requested status, from any current status, when
\* it is one of pending, confirmed, canceled, completed; a status outside the
\* enumeration is answered 500 and the appointment keeps its status.
C7_StatusWithinEnum ==
    [][resp'.op = "UpdateStatus" =>
        \A h \in Headers :
          (Answers(h) /\ AuthOK(h)) =>
            \A id \in DOMAIN appts, s \in BodyStatuses :
              (/\ UpdateStatus(h, id, s)
               /\ \/ RoleOf(h) = "admin"
                  \/ RoleOf(h) = "doctor" /\ appts[id].doctor = Actor(h)) =>
                IF s \in StatusEnum
                  THEN resp'.code = 200 /\ appts'[id].status = s
                  ELSE resp'.code = 500 /\ appts'[id].status = appts[id].status]_vars

\* an admin has just set a status while another appointment is still pending
C7_Witness ==
    /\ resp.op = "UpdateStatus" /\ resp.code = 200
    /\ resp.who \in DOMAIN users /\ users[resp.who].role = "admin"
    /\ \E a \in DOMAIN appts : appts[a].status = "confirmed"

\* C8 as stated, its first half: in every reachable state the patient and the
\* doctor of every stored appointment are users of the identity store.
C8_AsStated ==
    \A a \in DOMAIN appts :
      appts[a].patient \in DOMAIN users /\ appts[a].doctor \in DOMAIN users

\* C9 as stated: in every reachable state, whatever the interleaving of the
\* register requests and the updates, no two stored users have the same email.
C9_AsStated ==
    \A u, v \in DOMAIN users : u # v => users[u].email # users[v].email

\* C10: a PUT /appointment/:id answering 200 leaves the set of appointments,
\* every other appointment, and the patient, doctor, date, time, reason and
\* createdAt of its target as they were; and no step changes the createdAt of
\* an appointment that stays in the store.
C10_UpdateStatusFrame ==
    [][/\ (resp'.op = "UpdateStatus" /\ resp'.code = 200) =>
           \A h \in Headers : Answers(h) => \A id \in ApptIds, s \in BodyStatuses :
             UpdateStatus(h, id, s) =>
               /\ DOMAIN appts' = DOMAIN appts
               /\ \A i \in DOMAIN appts \ {id} : appts'[i] = appts[i]
               /\ appts'[id].patient = appts[id].patient
               /\ appts'[id].doctor = appts[id].doctor
               /\ appts'[id].date = appts[id].date
               /\ appts'[id].time = appts[id].time
               /\ appts'[id].reason = appts[id].reason
               /\ appts'[id].createdAt = appts[id].createdAt
       /\ \A i \in DOMAIN appts \cap DOMAIN appts' :
            appts'[i].createdAt = appts[i].createdAt]_vars

\* a status has just been set, an hour or more after the appointment was
\* created, with a second appointment in the store
C10_Witness ==
    /\ resp.op = "UpdateStatus" /\ resp.code = 200
    /\ Cardinality(DOMAIN appts) = 2
    /\ \E a \in DOMAIN appts : appts[a].status = "confirmed" /\ appts[a].createdAt < now

====
